---- MODULE Spec2Model ----
(***************************************************************************)
(* Model of the travel-suggestion application:                             *)
(*   - the plan-generation route handler (POST generate-plan) with its     *)
(*     fallback generator createFallbackPlan,                              *)
(*   - the image-lookup route handler (POST get-images),                   *)
(*   - the client page's onSubmit.                                         *)
(*                                                                         *)
(* Text is modelled as a sequence of tokens: the two brace characters, the *)
(* two bracket characters, object keys, string and number literals, and    *)
(* prose words (text that is no JSON).  JSON.stringify and JSON.parse work *)
(* on these token sequences.  Dates are whole days counted from            *)
(* 2024-01-01; the server is taken to run in UTC, so that new Date of a    *)
(* "yyyy-MM-dd" string is local midnight of that day.  Japanese string     *)
(* literals of the source are written in ASCII.                            *)
(***************************************************************************)
EXTENDS Integers, Sequences, FiniteSets, TLC

\* ---------------------------------------------------------------- bounds
\* Longest date range (in days) the form submits.
MaxDays == 3
\* First selectable date, in days since 2024-01-01 (119 = 2024-04-29).
FirstDate == 119
\* Longest run of prose tokens before and after the JSON of a completion.
MaxProse == 1

\* ------------------------------------------------------------ JSON values
\* A JSON value: k is its kind, key its member name when it sits in an
\* object, s / n its string / number, c its elements or members.
JVal(k, s, n, c) == [k |-> k, key |-> "", s |-> s, n |-> n, c |-> c]
Str(s) == JVal("str", s, 0, <<>>)
Num(n) == JVal("num", "", n, <<>>)
Arr(c) == JVal("arr", "", 0, c)
Obj(c) == JVal("obj", "", 0, c)
Undefined == JVal("undefined", "", 0, <<>>)
Member(key, v) == [v EXCEPT !.key = key]

\* obj[key]: undefined when obj is no object or has no such member.
Get(obj, key) ==
  IF obj.k = "obj" /\ \E i \in 1..Len(obj.c) : obj.c[i].key = key
  THEN LET i == CHOOSE j \in 1..Len(obj.c) : obj.c[j].key = key
       IN  Member("", obj.c[i])
  ELSE Undefined

\* Assignment of a member while parsing: a repeated key overwrites in place.
Put(members, key, v) ==
  IF \E i \in 1..Len(members) : members[i].key = key
  THEN [i \in 1..Len(members) |->
          IF members[i].key = key THEN Member(key, v) ELSE members[i]]
  ELSE Append(members, Member(key, v))

\* ----------------------------------------------------------------- tokens
Tok(t, s, n) == [t |-> t, s |-> s, n |-> n]
LB == Tok("{", "", 0)
RB == Tok("}", "", 0)
LA == Tok("[", "", 0)
RA == Tok("]", "", 0)
W  == Tok("w", "", 0)

RECURSIVE Stringify(_)
RECURSIVE StringifyAll(_, _)
\* JSON.stringify / NextResponse.json: the text of a value.
Stringify(v) ==
  CASE v.k = "str" -> <<Tok("str", v.s, 0)>>
    [] v.k = "num" -> <<Tok("num", "", v.n)>>
    [] v.k = "arr" -> <<LA>> \o StringifyAll(v.c, FALSE) \o <<RA>>
    [] v.k = "obj" -> <<LB>> \o StringifyAll(v.c, TRUE) \o <<RB>>
    [] OTHER       -> <<>>
StringifyAll(c, keyed) ==
  IF c = <<>> THEN <<>>
  ELSE (IF keyed THEN <<Tok("key", Head(c).key, 0)>> ELSE <<>>)
       \o Stringify(Member("", Head(c))) \o StringifyAll(Tail(c), keyed)

ParseFail == [ok |-> FALSE, val |-> Undefined, next |-> 0]
RECURSIVE ParseValue(_, _)
RECURSIVE ParseElems(_, _, _)
RECURSIVE ParseMembers(_, _, _)
\* One JSON value starting at token i: [ok, val, next token].
ParseValue(toks, i) ==
  IF i > Len(toks) THEN ParseFail
  ELSE CASE toks[i].t = "str" -> [ok |-> TRUE, val |-> Str(toks[i].s), next |-> i + 1]
         [] toks[i].t = "num" -> [ok |-> TRUE, val |-> Num(toks[i].n), next |-> i + 1]
         [] toks[i].t = "["   -> ParseElems(toks, i + 1, <<>>)
         [] toks[i].t = "{"   -> ParseMembers(toks, i + 1, <<>>)
         [] OTHER             -> ParseFail
ParseElems(toks, i, acc) ==
  IF i > Len(toks) THEN ParseFail
  ELSE IF toks[i].t = "]" THEN [ok |-> TRUE, val |-> Arr(acc), next |-> i + 1]
  ELSE LET r == ParseValue(toks, i)
       IN  IF r.ok THEN ParseElems(toks, r.next, Append(acc, r.val)) ELSE ParseFail
ParseMembers(toks, i, acc) ==
  IF i > Len(toks) THEN ParseFail
  ELSE IF toks[i].t = "}" THEN [ok |-> TRUE, val |-> Obj(acc), next |-> i + 1]
  ELSE IF toks[i].t = "key"
  THEN LET r == ParseValue(toks, i + 1)
       IN  IF r.ok THEN ParseMembers(toks, r.next, Put(acc, toks[i].s, r.val))
           ELSE ParseFail
  ELSE ParseFail

\* JSON.parse: the whole text must be one value; ok = FALSE is a SyntaxError.
JsonParse(toks) ==
  LET r == ParseValue(toks, 1)
  IN  IF r.ok /\ r.next = Len(toks) + 1 THEN r ELSE ParseFail

\* ------------------------------------------------------------------ dates
MonthLengths == <<31, 29, 31, 30, 31, 30, 31, 31, 30, 31, 30, 31>>
RECURSIVE MonthOf(_, _)
\* <<month, day of month>> of day d counted from the first of month m.
MonthOf(d, m) ==
  IF d < MonthLengths[m] THEN <<m, d + 1>> ELSE MonthOf(d - MonthLengths[m], m + 1)
Pad2(n) == IF n < 10 THEN "0" \o ToString(n) ELSE ToString(n)
\* date-fns format(date, "yyyy-MM-dd")
format(d) ==
  LET md == MonthOf(d, 1) IN "2024-" \o Pad2(md[1]) \o "-" \o Pad2(md[2])
\* new Date("yyyy-MM-dd"): the day the text names; -1 stands for Invalid Date.
NewDate(s) ==
  IF \E d \in 0..365 : format(d) = s
  THEN CHOOSE d \in 0..365 : format(d) = s
  ELSE -1
differenceInDays(dateLeft, dateRight) == dateLeft - dateRight
addDays(date, amount) == date + amount

\* -------------------------------------------------- createFallbackPlan
ActivityTypes == {"sightseeing", "meal", "accommodation", "transportation"}
PLACEHOLDER == "/placeholder.svg"

Activity(time, activity, location, description, type) ==
  Obj(<<Member("time", Str(time)), Member("activity", Str(activity)),
        Member("location", Str(location)), Member("description", Str(description)),
        Member("type", Str(type))>>)

\* The loop body with day: i in place of day: i + 1.
FallbackDayZeroBased(destination, startDate, travelStyle, i) ==
  Obj(<<Member("day", Num(i)),
        Member("date", Str(format(addDays(startDate, i)))),
        Member("activities", Arr(<<>>))>>)
\* The object pushed for loop index i (0-based).
FallbackDay(destination, startDate, travelStyle, i) ==
  Obj(<<Member("day", Num(i + 1)),
        Member("date", Str(format(addDays(startDate, i)))),
        Member("activities", Arr(<<
          Activity("08:00", "breakfast", destination \o " hotel restaurant",
                   "breakfast at the hotel", "meal"),
          Activity("10:00", destination \o " sightseeing", destination \o " popular spot",
                   "enjoy " \o travelStyle, "sightseeing"),
          Activity("12:30", "lunch", destination \o " local restaurant",
                   "enjoy the local cuisine", "meal"),
          Activity("14:00", "activity", destination \o " activity spot",
                   "activity related to " \o travelStyle, "sightseeing"),
          Activity("18:00", "dinner", destination \o " highly rated restaurant",
                   "a special dinner", "meal"),
          Activity("20:00", "stay", destination \o " hotel",
                   "a stay in a comfortable hotel", "accommodation")>>))>>)

createFallbackPlan(destination, numberOfDays, startDate, travelStyle) ==
  Obj(<<Member("destination", Str(destination)),
        Member("summary", Str("A " \o ToString(numberOfDays) \o "-day trip plan to "
                              \o destination \o " centred on " \o travelStyle)),
        Member("days", Arr([i \in 1..numberOfDays |->
                              FallbackDay(destination, startDate, travelStyle, i - 1)]))>>)

\* ----------------------------------------------- POST generate-plan
Response(status, body) == [status |-> status, body |-> body]
NoResponse == Response(0, Undefined)
PlanError == Response(500, Obj(<<Member("error", Str("Failed to generate travel plan"))>>))

\* content.match(/\{[\s\S]*\}/): from the first "{" to the last "}" after it;
\* the empty sequence stands for null (a match is never empty).
RegexMatch(content) ==
  LET opens  == {i \in 1..Len(content) : content[i].t = "{"}
      first  == CHOOSE i \in opens : \A j \in opens : i <= j
      closes == {i \in 1..Len(content) : content[i].t = "}" /\ i > first}
      last   == CHOOSE i \in closes : \A j \in closes : j <= i
  IN  IF opens = {} THEN <<>>
      ELSE IF closes = {} THEN <<>>
      ELSE SubSeq(content, first, last)

\* The inner try/catch with a catch block that assigns nothing.
ExtractPlanEmptyCatch(content, destination, numberOfDays, startDate, travelStyle) ==
  LET jsonMatch == RegexMatch(content)
      parsed    == JsonParse(jsonMatch)
  IN  IF jsonMatch # <<>> /\ parsed.ok THEN parsed.val ELSE Undefined

\* The inner try/catch: the parsed match, or the fallback plan when there is
\* no match or JSON.parse throws.
ExtractPlan(content, destination, numberOfDays, startDate, travelStyle) ==
  LET jsonMatch == RegexMatch(content)
      parsed    == JsonParse(jsonMatch)
  IN  IF jsonMatch # <<>> /\ parsed.ok
      THEN parsed.val
      ELSE createFallbackPlan(destination, numberOfDays, startDate, travelStyle)

\* What the handler answers once the completion endpoint has answered.
\* up.kind: "throws" (fetch rejects), "notOk" (non-success status),
\* "badEnvelope" (the body is no JSON or has no choices[0].message),
\* "noContent" (message.content is no string), "text" (content = up.content).
HandleCompletion(up, destination, numberOfDays, startDate, travelStyle) ==
  CASE up.kind \in {"throws", "notOk", "badEnvelope"} -> PlanError
    [] up.kind = "noContent" ->
         Response(200, createFallbackPlan(destination, numberOfDays, startDate, travelStyle))
    [] OTHER ->
         Response(200, ExtractPlan(up.content, destination, numberOfDays, startDate,
                                   travelStyle))

\* Lines 9-11 on a request body.
StartDateOf(body) == NewDate(body.dateRange.from)
NumberOfDaysOf(body) ==
  differenceInDays(NewDate(body.dateRange.to), NewDate(body.dateRange.from)) + 1

\* The whole handler: the response to body when the key is configured or
\* not and the completion endpoint does up.
GeneratePlan(body, key, up) ==
  IF ~key THEN PlanError
  ELSE HandleCompletion(up, body.destination, NumberOfDaysOf(body), StartDateOf(body),
                        body.travelStyle)

\* ------------------------------------------------------------ the inputs
Destinations == {"Kyoto"}
TravelStyles == {"sightseeing"}
TripDates == FirstDate..(FirstDate + MaxDays - 1)
\* What the form hands to onSubmit (dates are Date objects).
FormValues ==
  [destination : Destinations, from : TripDates, to : TripDates, travelStyle : TravelStyles]

\* The body onSubmit posts: JSON.stringify with both dates formatted.
RequestBody(values) ==
  [destination |-> values.destination,
   dateRange   |-> [from |-> format(values.from), to |-> format(values.to)],
   travelStyle |-> values.travelStyle]

\* A plan as the language model writes one: nd days of two activities, the
\* first activity of every day of type ty, locations repeating across days.
ModelLocations == <<<<"Kinkaku-ji", "Nishiki Market">>,
                    <<"Nishiki Market", "Kinkaku-ji">>,
                    <<"Gion", "Kinkaku-ji">>,
                    <<"Gion", "Arashiyama">>,
                    <<"Arashiyama", "Fushimi Inari">>>>
ModelDay(startDate, ty, i) ==
  LET locs == ModelLocations[((i - 1) % Len(ModelLocations)) + 1]
  IN  Obj(<<Member("day", Num(i)),
            Member("date", Str(format(addDays(startDate, i - 1)))),
            Member("activities", Arr(<<
              Activity("09:00", "visit", locs[1], "a visit", ty),
              Activity("12:00", "lunch", locs[2], "a lunch", "meal")>>))>>)
ModelPlan(destination, nd, startDate, ty) ==
  Obj(<<Member("destination", Str(destination)),
        Member("summary", Str("a trip to " \o destination)),
        Member("days", Arr([i \in 1..nd |-> ModelDay(startDate, ty, i)]))>>)

\* Runs of prose: words and stray brace characters.
RECURSIVE ProseUpTo(_)
ProseUpTo(n) ==
  IF n = 0 THEN {<<>>}
  ELSE LET shorter == ProseUpTo(n - 1)
       IN  shorter \cup {Append(p, t) : p \in shorter, t \in {W, LB, RB}}

\* The JSON-looking middle of a completion: nothing, a plan of 1..MaxDays
\* days with a valid or an invalid activity type, a plan cut off by the
\* output-length cap, an empty object, braces around prose.
Cores(values) ==
  LET plans == {ModelPlan(values.destination, nd, values.from, ty) :
                  nd \in 1..MaxDays, ty \in {"transportation", "shopping"}}
      cut   == Stringify(ModelPlan(values.destination, 1, values.from, "meal"))
  IN  {<<>>, <<LB, RB>>, <<LB, W, RB>>, SubSeq(cut, 1, Len(cut) - 1)}
      \cup {Stringify(p) : p \in plans}
Text(content) == [kind |-> "text", content |-> content]

\* The ways a completion request ends without a text.
Failures ==
  {[kind |-> k, content |-> <<>>] : k \in {"throws", "notOk", "badEnvelope", "noContent"}}
NoCompletion == [kind |-> "none", content |-> <<>>]

\* -------------------------------------------------- POST get-images
ImageBody(url) == Obj(<<Member("imageUrl", Str(url))>>)
\* The catch block with a failure status in place of 200.
ImageCatchFailing == Response(500, ImageBody(PLACEHOLDER))
\* The catch block: 200 with the placeholder.
ImageCatch == Response(200, ImageBody(PLACEHOLDER))

\* Lines 432-451 once the search has answered.  search.kind: "throws"
\* (fetch rejects), "notOk", "badJson" (the body is no JSON object), "data";
\* then hasItems says whether data.items is there and items holds the links.
HandleSearch(search) ==
  CASE search.kind \in {"throws", "notOk", "badJson"} -> ImageCatch
    [] OTHER ->
         IF search.hasItems /\ Len(search.items) > 0
         THEN Response(200, ImageBody(search.items[1]))
         ELSE Response(200, ImageBody(PLACEHOLDER))

\* The whole handler.  req.ok = FALSE: request.json() throws.
GetImages(req, key, cx, search) ==
  IF ~req.ok THEN ImageCatch
  ELSE IF ~key \/ ~cx THEN Response(200, ImageBody(PLACEHOLDER))
  ELSE HandleSearch(search)

MaxItems == 2
LinkFor(query) == "https://images.example/" \o query
Links == {"https://images.example/a", "https://images.example/b"}
RECURSIVE ItemsUpTo(_)
ItemsUpTo(n) ==
  IF n = 0 THEN {<<>>}
  ELSE LET shorter == ItemsUpTo(n - 1)
       IN  shorter \cup {Append(p, l) : p \in shorter, l \in Links}
SearchFailure(kind) == [kind |-> kind, hasItems |-> FALSE, items |-> <<>>]
SearchData(hasItems, items) == [kind |-> "data", hasItems |-> hasItems, items |-> items]
NoSearch == SearchFailure("none")
Searches ==
  {SearchFailure(k) : k \in {"throws", "notOk", "badJson"}}
  \cup {SearchData(FALSE, <<>>)}
  \cup {SearchData(TRUE, items) : items \in ItemsUpTo(MaxItems)}

\* The location strings the plans of this model name, and the queries the
\* client makes of them.
FallbackLocations(destination) ==
  {destination \o suffix :
     suffix \in {" hotel restaurant", " popular spot", " local restaurant", " activity spot",
                 " highly rated restaurant", " hotel"}}
Queries ==
  {location \o " " \o destination :
     location \in {ModelLocations[i][j] : i \in 1..Len(ModelLocations), j \in 1..2}
                    \cup UNION {FallbackLocations(d) : d \in Destinations},
     destination \in Destinations}
ImageRequests == {[ok |-> TRUE, query |-> q] : q \in Queries} \cup {[ok |-> FALSE, query |-> ""]}
NoImageRequest == [ok |-> FALSE, query |-> ""]

\* ------------------------------------------------------------- onSubmit
Null == JVal("null", "", 0, <<>>)
RECURSIVE Flatten(_)
Flatten(seqs) == IF seqs = <<>> THEN <<>> ELSE Head(seqs) \o Flatten(Tail(seqs))
\* A value interpolated into a template literal.
TemplateText(v) == IF v.k = "str" THEN v.s ELSE v.k
\* Whether planData.days.flatMap(day => day.activities.map(...)) runs through.
CanFlatMap(planData) ==
  /\ Get(planData, "days").k = "arr"
  /\ \A i \in 1..Len(Get(planData, "days").c) :
       Get(Get(planData, "days").c[i], "activities").k = "arr"
\* planData.days.flatMap(day => day.activities.map(activity => activity.location))
LocationsOf(planData) ==
  LET days == Get(planData, "days").c
  IN  Flatten([i \in 1..Len(days) |->
                 [j \in 1..Len(Get(days[i], "activities").c) |->
                    TemplateText(Get(Get(days[i], "activities").c[j], "location"))]])
\* The spread of the locations with no Set around them.
NoSet(locations) == locations
RECURSIVE UniqueFrom(_, _)
UniqueFrom(locations, seen) ==
  IF locations = <<>> THEN seen
  ELSE UniqueFrom(Tail(locations),
                  IF \E i \in 1..Len(seen) : seen[i] = Head(locations)
                  THEN seen ELSE Append(seen, Head(locations)))
\* [...new Set(locations)]: insertion order, each value once.
Unique(locations) == UniqueFrom(locations, <<>>)

Lookup(location, query) ==
  [location |-> location, query |-> query, st |-> "pending", imageUrl |-> ""]
\* imageData.imageUrl || "/placeholder.svg"
ImageUrlOf(body) ==
  IF Get(body, "imageUrl").k = "str" /\ Get(body, "imageUrl").s # ""
  THEN Get(body, "imageUrl").s ELSE PLACEHOLDER
\* One async callback of the map once its fetch has answered with resp.
LookupResult(location, resp) ==
  IF resp.status # 200
  THEN [location |-> location, imageUrl |-> PLACEHOLDER]
  ELSE [location |-> location, imageUrl |-> ImageUrlOf(JsonParse(Stringify(resp.body)).val)]
BadGateway == Response(502, Undefined)

\* ------------------------------------------------------------------ state
VARIABLES
  DEEPSEEK_API_KEY,   \* process.env.DEEPSEEK_API_KEY is set
  planPc,             \* generate-plan: "idle", "fetching", "responded"
  planValues,         \* the form values the request in hand was made from
  planBody,           \* generate-plan: the request body
  startDate,          \* generate-plan: new Date(dateRange.from)
  numberOfDays,       \* generate-plan: differenceInDays(endDate, startDate) + 1
  completion,         \* what the completion endpoint did with the request
  completionCalls,    \* requests sent to the completion endpoint
  planResp,           \* generate-plan: the response returned
  GOOGLE_CUSTOM_SEARCH_API_KEY,  \* the environment variable is set
  GOOGLE_CUSTOM_SEARCH_CX,       \* the environment variable is set
  imgPc,              \* get-images: "idle", "fetching", "responded"
  imgReq,             \* get-images: the request
  search,             \* what the search endpoint did with the request
  imgResp,            \* get-images: the response returned
  isLoading,          \* page state
  travelPlan,         \* page state
  images,             \* page state
  clientPc,           \* onSubmit: "idle", "awaitPlan", "awaitImages", "done"
  values,             \* onSubmit: its argument
  planFetch,          \* onSubmit: how the plan request ended
  lookups,            \* onSubmit: one entry per image promise
  imageCalls          \* onSubmit: the queries posted to get-images, in order

planVars == <<DEEPSEEK_API_KEY, planPc, planValues, planBody, startDate, numberOfDays,
              completion, completionCalls, planResp>>
imgVars == <<GOOGLE_CUSTOM_SEARCH_API_KEY, GOOGLE_CUSTOM_SEARCH_CX, imgPc, imgReq, search,
             imgResp>>
clientVars == <<isLoading, travelPlan, images, clientPc, values, planFetch, lookups,
                imageCalls>>
vars == <<planVars, imgVars, clientVars>>

NoValues == [destination |-> "", from |-> 0, to |-> 0, travelStyle |-> ""]
NoFetch == [kind |-> "none", resp |-> NoResponse]

\* No request in hand.
PlanIdle ==
  /\ planPc = "idle"
  /\ planValues = NoValues
  /\ planBody = RequestBody(NoValues)
  /\ startDate = 0
  /\ numberOfDays = 0
  /\ completion = NoCompletion
  /\ completionCalls = 0
  /\ planResp = NoResponse
ImgIdle ==
  /\ imgPc = "idle"
  /\ imgReq = NoImageRequest
  /\ search = NoSearch
  /\ imgResp = NoResponse
\* useState(false), useState(null), useState([])
ClientInit ==
  /\ isLoading = FALSE
  /\ travelPlan = Null
  /\ images = <<>>
  /\ clientPc = "idle"
  /\ values = NoValues
  /\ planFetch = NoFetch
  /\ lookups = <<>>
  /\ imageCalls = <<>>
\* Every environment variable set.
Configured ==
  /\ DEEPSEEK_API_KEY = TRUE
  /\ GOOGLE_CUSTOM_SEARCH_API_KEY = TRUE
  /\ GOOGLE_CUSTOM_SEARCH_CX = TRUE
\* The plan-generation handler under either configuration of its key.
PlanInit ==
  /\ DEEPSEEK_API_KEY \in BOOLEAN
  /\ GOOGLE_CUSTOM_SEARCH_API_KEY = TRUE
  /\ GOOGLE_CUSTOM_SEARCH_CX = TRUE
  /\ PlanIdle /\ ImgIdle /\ ClientInit
\* The image-lookup handler under every configuration of its two variables.
ImgInit ==
  /\ DEEPSEEK_API_KEY = TRUE
  /\ GOOGLE_CUSTOM_SEARCH_API_KEY \in BOOLEAN
  /\ GOOGLE_CUSTOM_SEARCH_CX \in BOOLEAN
  /\ PlanIdle /\ ImgIdle /\ ClientInit

\* Lines 4-15 and the start of the fetch: read the body, count the days,
\* throw (caught by the outer catch) when the key is not configured.
PlanReceive(v) ==
  /\ planPc = "idle"
  /\ planValues' = v
  /\ planBody' = RequestBody(v)
  /\ startDate' = StartDateOf(planBody')
  /\ numberOfDays' = NumberOfDaysOf(planBody')
  /\ IF ~DEEPSEEK_API_KEY
     THEN /\ planPc' = "responded"
          /\ planResp' = GeneratePlan(planBody', FALSE, NoCompletion)
          /\ UNCHANGED completionCalls
     ELSE /\ planPc' = "fetching"
          /\ completionCalls' = completionCalls + 1
          /\ UNCHANGED planResp
  /\ UNCHANGED <<DEEPSEEK_API_KEY, completion, imgVars, clientVars>>

\* Lines 58-107: the completion endpoint answers (or the fetch rejects) and
\* the handler returns.
PlanComplete(up) ==
  /\ planPc = "fetching"
  /\ completion' = up
  /\ planResp' = HandleCompletion(up, planBody.destination, numberOfDays, startDate,
                                  planBody.travelStyle)
  /\ planPc' = "responded"
  /\ UNCHANGED <<DEEPSEEK_API_KEY, planValues, planBody, startDate, numberOfDays,
                 completionCalls, imgVars, clientVars>>

PlanNext ==
  \/ \E v \in FormValues : PlanReceive(v)
  \/ \E up \in Failures : PlanComplete(up)
  \/ /\ planPc = "fetching"
     /\ \E pre \in ProseUpTo(MaxProse), core \in Cores(planValues),
           post \in ProseUpTo(MaxProse) :
          PlanComplete(Text(pre \o core \o post))

Spec == PlanInit /\ [][PlanNext]_vars

\* get-images, lines 419-431: read the request, answer the placeholder when
\* a credential is missing, else send the search.
ImgReceive(req) ==
  /\ imgPc = "idle"
  /\ imgReq' = req
  /\ IF ~req.ok \/ ~GOOGLE_CUSTOM_SEARCH_API_KEY \/ ~GOOGLE_CUSTOM_SEARCH_CX
     THEN /\ imgPc' = "responded"
          /\ imgResp' = GetImages(req, GOOGLE_CUSTOM_SEARCH_API_KEY,
                                  GOOGLE_CUSTOM_SEARCH_CX, NoSearch)
     ELSE /\ imgPc' = "fetching"
          /\ UNCHANGED imgResp
  /\ UNCHANGED <<GOOGLE_CUSTOM_SEARCH_API_KEY, GOOGLE_CUSTOM_SEARCH_CX, search, planVars,
                 clientVars>>

\* get-images, lines 432-451: the search answers and the handler returns.
ImgComplete(result) ==
  /\ imgPc = "fetching"
  /\ search' = result
  /\ imgResp' = GetImages(imgReq, TRUE, TRUE, result)
  /\ imgPc' = "responded"
  /\ UNCHANGED <<GOOGLE_CUSTOM_SEARCH_API_KEY, GOOGLE_CUSTOM_SEARCH_CX, imgReq, planVars,
                 clientVars>>

ImgNext ==
  \/ \E req \in ImageRequests : ImgReceive(req)
  \/ \E result \in Searches : ImgComplete(result)

SpecImages == ImgInit /\ [][ImgNext]_vars

\* What the form submits to onSubmit: a range that does not end before it
\* starts.
SubmitValues == {v \in FormValues : v.from <= v.to}
\* What the completion endpoint does while the page waits.
PageCompletions(v) ==
  Failures
  \cup {Text(Stringify(ModelPlan(v.destination, nd, v.from, ty))) :
          nd \in 1..MaxDays, ty \in {"transportation", "shopping"}}
  \cup {Text(<<LB, RB>>), Text(<<W>>)}
\* What the search endpoint does with a query while the page waits.
PageSearches(query) ==
  {SearchFailure("throws"), SearchData(TRUE, <<>>), SearchData(TRUE, <<LinkFor(query)>>)}
Fetched(resp) == [kind |-> "response", resp |-> resp]
FetchThrows == [kind |-> "throws", resp |-> NoResponse]

\* Lines 78-100: the three state updates and the plan request.
Submit(v) ==
  /\ clientPc \in {"idle", "done"}
  /\ isLoading' = TRUE
  /\ travelPlan' = Null
  /\ images' = <<>>
  /\ values' = v
  /\ planFetch' = NoFetch
  /\ lookups' = <<>>
  /\ imageCalls' = <<>>
  /\ clientPc' = "awaitPlan"
  /\ UNCHANGED <<planVars, imgVars>>

\* Lines 102-123 and 137-141: the plan request ends; on a success response
\* the plan is stored and one image request per unique location is sent.
PlanArrives(fetch) ==
  /\ clientPc = "awaitPlan"
  /\ planFetch' = fetch
  /\ LET parsed   == JsonParse(Stringify(fetch.resp.body))
         planData == parsed.val
         unique   == Unique(LocationsOf(planData))
         queries  == [i \in 1..Len(unique) |->
                        unique[i] \o " " \o TemplateText(Get(planData, "destination"))]
     IN  IF fetch.kind = "throws" \/ fetch.resp.status # 200 \/ ~parsed.ok
         THEN /\ clientPc' = "done"
              /\ isLoading' = FALSE
              /\ UNCHANGED <<travelPlan, images, lookups, imageCalls>>
         ELSE /\ travelPlan' = planData
              /\ IF ~CanFlatMap(planData)
                 THEN /\ clientPc' = "done"
                      /\ isLoading' = FALSE
                      /\ UNCHANGED <<images, lookups, imageCalls>>
                 ELSE /\ lookups' = [i \in 1..Len(unique) |-> Lookup(unique[i], queries[i])]
                      /\ imageCalls' = queries
                      /\ IF unique = <<>>
                         THEN /\ images' = <<>>
                              /\ clientPc' = "done"
                              /\ isLoading' = FALSE
                         ELSE /\ clientPc' = "awaitImages"
                              /\ UNCHANGED <<images, isLoading>>
  /\ UNCHANGED <<values, planVars, imgVars>>

\* Lines 125-136 and 139-141: one image request is answered; when it was
\* the last one outstanding the results are stored.
LookupFulfils(i, resp) ==
  /\ clientPc = "awaitImages"
  /\ i \in 1..Len(lookups)
  /\ lookups[i].st = "pending"
  /\ LET result == LookupResult(lookups[i].location, resp)
         after  == [lookups EXCEPT ![i].st = "fulfilled", ![i].imageUrl = result.imageUrl]
     IN  /\ lookups' = after
         /\ IF \A j \in 1..Len(after) : after[j].st = "fulfilled"
            THEN /\ images' = [j \in 1..Len(after) |->
                                 [location |-> after[j].location,
                                  imageUrl |-> after[j].imageUrl]]
                 /\ clientPc' = "done"
                 /\ isLoading' = FALSE
            ELSE UNCHANGED <<images, clientPc, isLoading>>
  /\ UNCHANGED <<travelPlan, values, planFetch, imageCalls, planVars, imgVars>>

\* A callback that sends its request a second time when the fetch rejects.
LookupRejectsRetrying(i) ==
  /\ clientPc = "awaitImages"
  /\ i \in 1..Len(lookups)
  /\ lookups[i].st = "pending"
  /\ Len(imageCalls) < 2 * Len(lookups)
  /\ imageCalls' = Append(imageCalls, lookups[i].query)
  /\ UNCHANGED <<lookups, clientPc, isLoading, travelPlan, images, values, planFetch,
                 planVars, imgVars>>
\* The rejection handled with no finally block.
LookupRejectsNoFinally(i) ==
  /\ clientPc = "awaitImages"
  /\ i \in 1..Len(lookups)
  /\ lookups[i].st = "pending"
  /\ lookups' = [lookups EXCEPT ![i].st = "rejected"]
  /\ clientPc' = "done"
  /\ UNCHANGED <<isLoading, travelPlan, images, values, planFetch, imageCalls, planVars,
                 imgVars>>
\* Lines 115, 135 and 137-141: the fetch of one image request rejects, so
\* Promise.all rejects and the catch and finally blocks run.  What the
\* requests still outstanding answer afterwards reaches no state of the page.
LookupRejects(i) ==
  /\ clientPc = "awaitImages"
  /\ i \in 1..Len(lookups)
  /\ lookups[i].st = "pending"
  /\ lookups' = [lookups EXCEPT ![i].st = "rejected"]
  /\ clientPc' = "done"
  /\ isLoading' = FALSE
  /\ UNCHANGED <<travelPlan, images, values, planFetch, imageCalls, planVars, imgVars>>

ClientNext ==
  \/ \E v \in SubmitValues : Submit(v)
  \/ PlanArrives(FetchThrows)
  \/ PlanArrives(Fetched(BadGateway))
  \/ /\ clientPc = "awaitPlan"
     /\ \E key \in BOOLEAN, up \in PageCompletions(values) :
          PlanArrives(Fetched(GeneratePlan(RequestBody(values), key, up)))
  \/ \E i \in 1..Len(lookups) : LookupFulfils(i, BadGateway)
  \/ \E i \in 1..Len(lookups), key \in BOOLEAN :
       \E result \in PageSearches(lookups[i].query) :
         LookupFulfils(i, GetImages([ok |-> TRUE, query |-> lookups[i].query], key, TRUE,
                                    result))
  \/ \E i \in 1..Len(lookups) : LookupRejects(i)

ClientStart == Configured /\ PlanIdle /\ ImgIdle /\ ClientInit
SpecClient == ClientStart /\ [][ClientNext]_vars
\* Every request the page has outstanding ends: its fetch resolves with a
\* response or rejects, and the event loop then runs the continuation.
SpecClientFair ==
  SpecClient /\ WF_vars(ClientNext /\ clientPc \in {"awaitPlan", "awaitImages"})

\* ------------------------------------------- one submission, end to end
\* The page and the plan-generation handler together: the handler runs on
\* the request the page posted and the page gets the response it returned.

\* onSubmit, lines 78-100, with the request reaching a fresh run of the
\* handler.
SubmitRequest(v) ==
  /\ clientPc \in {"idle", "done"}
  /\ planPc # "fetching"
  /\ isLoading' = TRUE
  /\ travelPlan' = Null
  /\ images' = <<>>
  /\ values' = v
  /\ planFetch' = NoFetch
  /\ lookups' = <<>>
  /\ imageCalls' = <<>>
  /\ clientPc' = "awaitPlan"
  /\ planPc' = "idle"
  /\ planValues' = NoValues
  /\ planBody' = RequestBody(NoValues)
  /\ startDate' = 0
  /\ numberOfDays' = 0
  /\ completion' = NoCompletion
  /\ completionCalls' = 0
  /\ planResp' = NoResponse
  /\ UNCHANGED <<DEEPSEEK_API_KEY, imgVars>>

\* The handler starts on the posted request.
RequestReaches ==
  /\ clientPc = "awaitPlan"
  /\ PlanReceive(values)

\* The page's fetch resolves with what the handler returned.
ResponseReaches ==
  /\ planPc = "responded"
  /\ PlanArrives(Fetched(planResp))

SubmissionNext ==
  \/ \E v \in SubmitValues : SubmitRequest(v)
  \/ RequestReaches
  \/ /\ planPc = "fetching"
     /\ \E up \in PageCompletions(planValues) : PlanComplete(up)
  \/ ResponseReaches
  \/ PlanArrives(FetchThrows)
  \/ PlanArrives(Fetched(BadGateway))
  \/ \E i \in 1..Len(lookups) : LookupFulfils(i, BadGateway)
  \/ \E i \in 1..Len(lookups) :
       LookupFulfils(i, GetImages([ok |-> TRUE, query |-> lookups[i].query], TRUE, TRUE,
                                  SearchData(TRUE, <<LinkFor(lookups[i].query)>>)))
  \/ \E i \in 1..Len(lookups) : LookupRejects(i)

SpecSubmission == PlanInit /\ [][SubmissionNext]_vars

\* ------------------------------------------------ reading an itinerary
Elems(v) == IF v.k = "arr" THEN v.c ELSE <<>>
Days(plan) == Elems(Get(plan, "days"))
Activities(day) == Elems(Get(day, "activities"))
IsValidRequest == planValues.from <= planValues.to
\* The fallback plan of the request in hand, from the form's own values.
FallbackFor(v) ==
  createFallbackPlan(v.destination, v.to - v.from + 1, v.from, v.travelStyle)
\* The calendar from 2024-04-29 on, written out.
DateText ==
  <<"2024-04-29", "2024-04-30", "2024-05-01", "2024-05-02", "2024-05-03", "2024-05-04",
    "2024-05-05", "2024-05-06", "2024-05-07", "2024-05-08", "2024-05-09", "2024-05-10">>
DateTextOf(d) == DateText[d - 118]

DayCountIs(plan, n) ==
  /\ Get(plan, "days").k = "arr"
  /\ Len(Days(plan)) = n
  /\ \A i \in 1..Len(Days(plan)) : Get(Days(plan)[i], "day") = Num(i)
TypesValid(plan) ==
  \A i \in 1..Len(Days(plan)) :
    \A j \in 1..Len(Activities(Days(plan)[i])) :
      /\ Get(Activities(Days(plan)[i])[j], "type").k = "str"
      /\ Get(Activities(Days(plan)[i])[j], "type").s \in ActivityTypes
\* A plan that passes the schema of the request: n days numbered 1..n, each
\* with at least one activity, every type one of the four.
WellFormedPlan(plan, n) ==
  /\ plan.k = "obj"
  /\ Get(plan, "destination").k = "str"
  /\ Get(plan, "summary").k = "str"
  /\ DayCountIs(plan, n)
  /\ \A i \in 1..Len(Days(plan)) : Activities(Days(plan)[i]) # <<>>
  /\ TypesValid(plan)

\* Whether a JSON object can be read at some "{" of the text.
ContainsJsonObject(content) ==
  \E i \in 1..Len(content) : content[i].t = "{" /\ ParseValue(content, i).ok
\* From the first "{" to the last "}" of the text, when they are in that order.
HasBraceSpan(content) ==
  \E i, j \in 1..Len(content) : i < j /\ content[i].t = "{" /\ content[j].t = "}"
OuterSpan(content) ==
  LET i == CHOOSE a \in 1..Len(content) :
             content[a].t = "{" /\ \A b \in 1..(a - 1) : content[b].t # "{"
      j == CHOOSE a \in 1..Len(content) :
             content[a].t = "}" /\ \A b \in (a + 1)..Len(content) : content[b].t # "}"
  IN  SubSeq(content, i, j)
\* The first balanced {...} span: from the first "{" to the "}" that closes it.
Depth(content, i, j) ==
  Cardinality({a \in i..j : content[a].t = "{"}) - Cardinality({a \in i..j : content[a].t = "}"})
FirstBalancedSpan(content) ==
  LET opens == {a \in 1..Len(content) : content[a].t = "{"}
      i     == CHOOSE a \in opens : \A b \in opens : a <= b
      ends  == {a \in i..Len(content) : Depth(content, i, a) = 0}
      j     == CHOOSE a \in ends : \A b \in ends : a <= b
  IN  IF opens = {} THEN <<>> ELSE IF ends = {} THEN <<>> ELSE SubSeq(content, i, j)

Responded == planPc = "responded"
ReturnedFallback == planResp = Response(200, FallbackFor(planValues))

\* ----------------------------------------------------------------- claims
\* C1: with the credential absent the handler returns the fallback plan of
\* the request as a success, not an error indicator.
C1_MissingKeyReturnsFallback ==
  (Responded /\ ~DEEPSEEK_API_KEY) => ReturnedFallback

\* C2: a non-success status or a network failure of the completion request
\* yields the fallback plan, never a failed itinerary.
C2_UpstreamFailureReturnsFallback ==
  (Responded /\ completion.kind \in {"throws", "notOk"}) => ReturnedFallback

\* C3: for a valid request every itinerary returned has exactly numberOfDays
\* days numbered 1..N; a parseable plan of another day count is replaced by
\* the fallback plan.
C3_DayCountAlwaysRequested ==
  (Responded /\ IsValidRequest /\ planResp.status = 200
     /\ Get(planResp.body, "days").k = "arr") =>
    DayCountIs(planResp.body, planValues.to - planValues.from + 1)

\* C4: every activity of every itinerary returned has one of the four types.
C4_ActivityTypesEnumerated ==
  (Responded /\ planResp.status = 200) => TypesValid(planResp.body)

\* C5: a successful completion whose text holds no JSON object (no brace
\* span, or a span that does not parse) yields the fallback plan as a success.
C5_NoJsonReturnsFallback ==
  (Responded /\ completion.kind = "text"
     /\ (\/ ~ContainsJsonObject(completion.content)
         \/ ~HasBraceSpan(completion.content)
         \/ ~JsonParse(OuterSpan(completion.content)).ok)) =>
    ReturnedFallback
C5_Witness ==
  /\ Responded /\ completion.kind = "text" /\ ReturnedFallback
  /\ HasBraceSpan(completion.content)
  /\ ~ContainsJsonObject(completion.content)
  /\ Len(completion.content) > 3
  /\ planValues.to - planValues.from = 1

\* C6: the first balanced {...} span of the text, when it is a well-formed
\* plan for the request, is returned as it is, whatever prose surrounds it.
C6_FirstBalancedSpanReturned ==
  (Responded /\ completion.kind = "text" /\ IsValidRequest) =>
    LET span == FirstBalancedSpan(completion.content)
    IN  (span # <<>> /\ JsonParse(span).ok
           /\ WellFormedPlan(JsonParse(span).val, planValues.to - planValues.from + 1)) =>
          planResp = Response(200, JsonParse(span).val)

\* C7: createFallbackPlan returns numberOfDays days; day i (0-based) has
\* day = i + 1, date = startDate + i days and the six fixed activities.
FallbackTimes == <<"08:00", "10:00", "12:30", "14:00", "18:00", "20:00">>
FallbackTypes == <<"meal", "sightseeing", "meal", "sightseeing", "meal", "accommodation">>
TookFallbackPath ==
  /\ Responded /\ planResp.status = 200
  /\ \/ completion.kind = "noContent"
     \/ completion.kind = "text" /\ ~ContainsJsonObject(completion.content)
C7_FallbackShape ==
  (TookFallbackPath /\ numberOfDays >= 1) =>
    /\ Len(Days(planResp.body)) = numberOfDays
    /\ \A i \in 0..(numberOfDays - 1) :
         LET day == Days(planResp.body)[i + 1]
         IN  /\ Get(day, "day") = Num(i + 1)
             /\ Get(day, "date") = Str(DateTextOf(startDate + i))
             /\ Len(Activities(day)) = 6
             /\ \A j \in 1..6 :
                  /\ Get(Activities(day)[j], "time") = Str(FallbackTimes[j])
                  /\ Get(Activities(day)[j], "type") = Str(FallbackTypes[j])
C7_Witness ==
  /\ TookFallbackPath /\ numberOfDays = 3
  /\ Get(Days(planResp.body)[3], "date") = Str("2024-05-01")

\* An itinerary as the page's TravelPlan type has it: a destination and days
\* of activities that each name a location.
IsItinerary(plan) ==
  /\ Get(plan, "destination").k = "str"
  /\ Get(plan, "days").k = "arr"
  /\ \A i \in 1..Len(Days(plan)) :
       /\ Get(Days(plan)[i], "activities").k = "arr"
       /\ \A j \in 1..Len(Activities(Days(plan)[i])) :
            Get(Activities(Days(plan)[i])[j], "location").k = "str"
LocationAt(plan, i, j) == Get(Activities(Days(plan)[i])[j], "location").s
Positions(plan) ==
  UNION {{<<i, j>> : j \in 1..Len(Activities(Days(plan)[i]))} : i \in 1..Len(Days(plan))}
LocationSet(plan) == {LocationAt(plan, p[1], p[2]) : p \in Positions(plan)}
Before(p, q) == p[1] < q[1] \/ (p[1] = q[1] /\ p[2] < q[2])
\* Whether location a is first named before location b is.
FirstSeenBefore(plan, a, b) ==
  \E p \in Positions(plan) :
    /\ LocationAt(plan, p[1], p[2]) = a
    /\ \A q \in Positions(plan) : LocationAt(plan, q[1], q[2]) = b => Before(p, q)

\* C8: once every image lookup of an itinerary has completed, the stored
\* image list has one entry per distinct location, in first-seen order, and
\* one request keyed "{location} {destination}" was sent per location.
C8_OneEntryPerLocation ==
  (/\ clientPc = "done" /\ travelPlan # Null /\ IsItinerary(travelPlan)
   /\ \A i \in 1..Len(lookups) : lookups[i].st # "rejected") =>
    /\ {images[i].location : i \in 1..Len(images)} = LocationSet(travelPlan)
    /\ Len(images) = Cardinality(LocationSet(travelPlan))
    /\ \A i, j \in 1..Len(images) :
         i < j => FirstSeenBefore(travelPlan, images[i].location, images[j].location)
    /\ Len(imageCalls) = Len(images)
    /\ \A i \in 1..Len(images) :
         imageCalls[i] = images[i].location \o " " \o Get(travelPlan, "destination").s
C8_Witness ==
  /\ clientPc = "done" /\ IsItinerary(travelPlan)
  /\ Len(Days(travelPlan)) = 3 /\ Len(Activities(Days(travelPlan)[1])) = 2
  /\ Len(images) = 3
  /\ images[1].imageUrl = PLACEHOLDER /\ images[2].imageUrl # PLACEHOLDER

\* C9: a lookup that fails leaves its location with the placeholder and
\* every other location of the submission with its own resolved image.
C9_FailureIsolated ==
  (clientPc = "done" /\ lookups # <<>>) =>
    \A i \in 1..Len(lookups) :
      /\ lookups[i].st = "rejected" =>
           \E k \in 1..Len(images) :
             images[k] = [location |-> lookups[i].location, imageUrl |-> PLACEHOLDER]
      /\ lookups[i].st = "fulfilled" =>
           \E k \in 1..Len(images) :
             images[k] = [location |-> lookups[i].location, imageUrl |-> lookups[i].imageUrl]

\* C10: the image-lookup handler always answers 200 with an imageUrl: the
\* first result's link when the search succeeded with an item, else the
\* placeholder.
C10_AlwaysImageUrl ==
  imgPc = "responded" =>
    /\ imgResp.status = 200
    /\ Get(imgResp.body, "imageUrl") =
         Str(IF /\ imgReq.ok
                /\ GOOGLE_CUSTOM_SEARCH_API_KEY /\ GOOGLE_CUSTOM_SEARCH_CX
                /\ search.kind = "data" /\ search.hasItems /\ Len(search.items) >= 1
             THEN search.items[1] ELSE PLACEHOLDER)
C10_Witness ==
  /\ imgPc = "responded" /\ search.kind = "data" /\ Len(search.items) = 2
  /\ search.items[1] # search.items[2]
  /\ Get(imgResp.body, "imageUrl") = Str(search.items[1])

\* Whether the queries sent are one per distinct location of the plan, each
\* keyed on the location and the plan's destination.
OneCallPerLocation(plan) ==
  /\ Len(imageCalls) = Cardinality(LocationSet(plan))
  /\ \A loc \in LocationSet(plan) :
       Cardinality({i \in 1..Len(imageCalls) :
                      imageCalls[i] = loc \o " " \o Get(plan, "destination").s}) = 1

\* C11 (as stated): in one submission the handler issues exactly one
\* completion request and the page exactly one image request per distinct
\* location, whether the calls succeed or fail.
C11_ExactlyOneCallEach ==
  /\ planPc = "responded" => completionCalls = 1
  /\ (clientPc = "done" /\ IsItinerary(travelPlan)) => OneCallPerLocation(travelPlan)
\* C11 (amended): no outward call is retried: the handler issues at most one
\* completion request, exactly one when the credential is configured and
\* none when it is absent, and the page issues exactly one image request per
\* distinct location of the itinerary it received, none before it has one.
C11_NoCallRepeated ==
  /\ completionCalls <= 1
  /\ planPc \in {"fetching", "responded"} =>
       completionCalls = (IF DEEPSEEK_API_KEY THEN 1 ELSE 0)
  /\ IsItinerary(travelPlan) => OneCallPerLocation(travelPlan)
  /\ travelPlan = Null => imageCalls = <<>>
C11_Witness ==
  /\ clientPc = "done" /\ completionCalls = 1 /\ Len(imageCalls) = 6
  /\ \E i \in 1..Len(lookups) : lookups[i].st = "rejected"
  /\ \E i \in 1..Len(lookups) : lookups[i].st = "fulfilled"

\* C12: every submission first sets isLoading and clears travelPlan and
\* images, and ends with isLoading false whatever the plan request and the
\* image lookups do; travelPlan is non-null afterwards only if the plan
\* request returned a success response.
C12_SubmissionLifecycle ==
  /\ [][(clientPc # "awaitPlan" /\ clientPc' = "awaitPlan") =>
          (isLoading' = TRUE /\ travelPlan' = Null /\ images' = <<>>)]_vars
  /\ (isLoading ~> ~isLoading)
  /\ [](clientPc = "done" => ~isLoading)
  /\ []((clientPc = "done" /\ travelPlan # Null) =>
          (planFetch.kind = "response" /\ planFetch.resp.status = 200))
C12_Witness ==
  /\ clientPc = "done" /\ ~isLoading /\ travelPlan # Null /\ images = <<>>
  /\ \E i \in 1..Len(lookups) : lookups[i].st = "rejected"
  /\ \E i \in 1..Len(lookups) : lookups[i].st = "fulfilled"

====
